---- MODULE Spec2Model ----
(***************************************************************************)
(* Model of LocalMode.Run (mode/mode_local.go): credential staging, host   *)
(* trust resolution (bastion-tunneled or direct, with the bounded retry    *)
(* loop), known-hosts files, the play loop, and the deferred cleanup that  *)
(* runs on every return.                                                   *)
(*                                                                         *)
(* Text is modelled as a sequence of tokens: a word ("10.0.0.5", a key, a  *)
(* PEM body) is one token, and " " and "\n" are tokens of their own.       *)
(***************************************************************************)
EXTENDS Integers, Sequences, FiniteSets, TLC

\* ------------------------------------------------------------------ bounds

\* Longest list of plays handed to Run.
MaxPlays == 2

\* Longest list of hosts a play declares.
MaxHosts == 2

\* Largest ssh_keyscan_timeout_seconds ceiling explored.
MaxKeyscanSeconds == 11

\* ------------------------------------------------------- program constants

\* intervalMs := 5000 (the fixed sleep between two handshake attempts).
intervalMs == 5000

\* ------------------------------------------------------------- text helpers

IsSpace(tok) == tok \in {" ", "\n", ""}

RECURSIVE TrimLeft(_)
TrimLeft(s) ==
  IF s = <<>> THEN <<>>
  ELSE IF IsSpace(Head(s)) THEN TrimLeft(Tail(s)) ELSE s

RECURSIVE TrimRight(_)
TrimRight(s) ==
  IF s = <<>> THEN <<>>
  ELSE IF IsSpace(s[Len(s)]) THEN TrimRight(SubSeq(s, 1, Len(s) - 1)) ELSE s

\* strings.TrimSpace
TrimSpace(s) == TrimRight(TrimLeft(s))

\* A Go string as text: the empty string holds no token.
Text(str) == IF str = "" THEN <<>> ELSE <<str>>

\* fmt.Sprintf("%s %s", a, b)
SprintfPair(a, b) == Text(a) \o <<" ">> \o Text(b)

\* strings.Join(lines, "\n")
RECURSIVE JoinLines(_)
JoinLines(lines) ==
  IF lines = <<>> THEN <<>>
  ELSE IF Len(lines) = 1 THEN lines[1]
  ELSE lines[1] \o <<"\n">> \o JoinLines(Tail(lines))

\* ------------------------------------------------------------------- state

VARIABLES
  connInfo,               \* v.connInfo, the connection descriptor
  connInfo0,              \* history: the descriptor as Run received it
  settings,               \* ansibleSSHSettings
  plays,                  \* the plays argument (override inventory is set on it)
  pc,                     \* position of Run
  err,                    \* "running", then what Run returned ("nil" or the error)
  playIdx,                \* index of the play the loop is at
  fs,                     \* the temp-file area: path -> content
  created,                \* history: every temp file this run created
  defers,                 \* the stack of deferred calls of Run
  trace,                  \* history: the external calls made, in order
  knownHostsTarget,
  knownHostsBastion,
  locals,                 \* the path locals of Run
  timeoutMs,
  timeSpentMs,
  sshClientOpen           \* the bastion session is open

vars == <<connInfo, connInfo0, settings, plays, pc, err, playIdx, fs, created,
          defers, trace, knownHostsTarget, knownHostsBastion, locals,
          timeoutMs, timeSpentMs, sshClientOpen>>

\* An external call, as recorded in trace.
Event(op, n, arg) == [op |-> op, n |-> n, arg |-> arg]

\* --------------------------------------------- collaborators outside mode_local.go

\* bastion.inUse(): a bastion was configured.
bastionInUse(ci) == ci.BastionHost # ""

\* ansibleSSHSettings.InsecureNoStrictHostKeyChecking(): the user's setting, or
\* the override that Run forces for a resource-less run.
InsecureNoStrictHostKeyChecking(s) ==
  s.overrideStrictHostKeyChecking \/ s.insecureNoStrictHostKeyChecking

\* play.InventoryFile(): the override once one is set, else the play's own.
InventoryFile(play) ==
  IF play.overrideInventoryFile # "" THEN play.overrideInventoryFile
  ELSE play.inventoryFile

\* play.SetOverrideInventoryFile(path)
SetOverrideInventoryFile(play, path) ==
  [play EXCEPT !.overrideInventoryFile = path]

\* ------------------------------------------------------------ configurations

PemMaterial == {"", "PEM"}
HostKeys == {"", "ssh-rsa-AAAA"}
Passwords == {"", "secret"}
TargetHosts == {"", "10.0.0.5"}
BastionHosts == {"", "bastion"}
KnownHostsFiles == {"", "user_known_hosts"}
UserInventory == "user.ini"

ConnInfo(type, host, password, hostKey, bastion, bastionHostKey, pk, bpk, ca) ==
  [Type |-> type, Host |-> host, User |-> "root", Password |-> password,
   HostKey |-> hostKey, PrivateKey |-> pk, Cacert |-> ca,
   BastionHost |-> bastion, BastionHostKey |-> bastionHostKey,
   BastionPrivateKey |-> bpk, Port |-> "22", Ntlm |-> FALSE]

Settings(insecure, knownHostsFile, seconds) ==
  [insecureNoStrictHostKeyChecking |-> insecure,
   overrideStrictHostKeyChecking |-> FALSE,
   userKnownHostsFile |-> knownHostsFile,
   sshKeyscanSeconds |-> seconds]

Play(enabled, hosts, groups, inventoryFile) ==
  [enabled |-> enabled, hosts |-> hosts, groups |-> groups,
   inventoryFile |-> inventoryFile, overrideInventoryFile |-> ""]

\* The plays a list is drawn from: enabled or not, with or without declared
\* hosts, with or without an inventory file of their own.
PlayChoices ==
  {Play(e, h, <<>>, f) : e \in BOOLEAN, h \in {<<>>, <<"web1">>},
                         f \in {"", UserInventory}}

PlayLists == UNION {[1..n -> PlayChoices] : n \in 0..MaxPlays}

OnePlay == <<Play(TRUE, <<"web1">>, <<>>, "")>>

\* Every combination of the inputs the trust branches of Run read.
TrustConfigs ==
  {[conn |-> ConnInfo(type, host, pw, hk, b, bhk, m, m, ""),
    settings |-> Settings(insecure, ukh, MaxKeyscanSeconds),
    plays |-> OnePlay] :
     type \in {"ssh", "winrm"}, host \in TargetHosts, pw \in Passwords,
     hk \in HostKeys, b \in BastionHosts, bhk \in HostKeys,
     m \in PemMaterial, insecure \in BOOLEAN, ukh \in KnownHostsFiles}

\* Direct host-key discovery under every ceiling up to the bound.
DiscoverConfigs ==
  {[conn |-> ConnInfo("ssh", "10.0.0.5", "", "", "", "", "PEM", "", ""),
    settings |-> Settings(FALSE, "", t),
    plays |-> OnePlay] : t \in 0..MaxKeyscanSeconds}

\* Every list of plays, for both protocols, with and without a compute resource
\* and a bastion.
PlayConfigs ==
  {[conn |-> ConnInfo(type, host, "secret", "ssh-rsa-AAAA", b, "ssh-rsa-AAAA",
                      "PEM", "", ""),
    settings |-> Settings(FALSE, "", MaxKeyscanSeconds),
    plays |-> ps] :
     type \in {"ssh", "winrm"}, host \in TargetHosts, b \in BastionHosts,
     ps \in PlayLists}

\* Every combination of credential material.
MaterialConfigs ==
  {[conn |-> ConnInfo(type, "10.0.0.5", "secret", "", "", "", pk, bpk, ca),
    settings |-> Settings(TRUE, "", MaxKeyscanSeconds),
    plays |-> OnePlay] :
     type \in {"ssh", "winrm"}, pk \in PemMaterial, bpk \in PemMaterial,
     ca \in PemMaterial}

\* The declared hosts of a play: aliases, the empty string among them.
HostLists == UNION {[1..n -> {"", "web1", "web2"}] : n \in 0..MaxHosts}

GroupLists == {<<>>, <<"g1">>, <<"g1", "g2">>}

\* Every list of declared hosts and groups of an ssh play that gets a generated
\* inventory, with and without a compute resource and a password.
InventoryConfigs ==
  {[conn |-> ConnInfo("ssh", host, pw, "ssh-rsa-AAAA", "", "", "", "", ""),
    settings |-> Settings(TRUE, "", MaxKeyscanSeconds),
    plays |-> <<Play(TRUE, h, g, "")>>] :
     host \in TargetHosts, pw \in Passwords, h \in HostLists, g \in GroupLists}

Configs ==
  TrustConfigs \cup DiscoverConfigs \cup PlayConfigs \cup MaterialConfigs
  \cup InventoryConfigs

NoLocals ==
  [bastionPemFile |-> "", targetPemFile |-> "", cacertPemFile |-> "",
   knownHostsFileBastion |-> "", knownHostsFileTarget |-> "",
   inventoryFile |-> ""]

\* The state when Run is entered.  The user's own inventory file exists.
Init ==
  \E c \in Configs :
    /\ connInfo = c.conn
    /\ connInfo0 = c.conn
    /\ settings = c.settings
    /\ plays = c.plays
    /\ pc = "validate"
    /\ err = "running"
    /\ playIdx = 1
    /\ fs = (UserInventory :> <<"[user]">>)
    /\ created = {}
    /\ defers = <<>>
    /\ trace = <<>>
    /\ knownHostsTarget = <<>>
    /\ knownHostsBastion = <<>>
    /\ locals = NoLocals
    /\ timeoutMs = 0
    /\ timeSpentMs = 0
    /\ sshClientOpen = FALSE

\* ------------------------------------------------------------ files, defers

\* os.Remove(path): the file is gone afterwards (a missing path is an error
\* that the deferred call drops).
Remove(f, path) == [p \in (DOMAIN f) \ {path} |-> f[p]]

DeferRemove(path) == [call |-> "os.Remove", path |-> path]
DeferClose == [call |-> "sshClient.Close", path |-> ""]

\* Mutant: the deferred calls run first registered first.
RECURSIVE RunDefersFifo(_, _, _, _)
RunDefersFifo(stack, f, t, o) ==
  IF stack = <<>> THEN [fs |-> f, trace |-> t, open |-> o]
  ELSE LET d == Head(stack)
       IN IF d.call = "os.Remove"
          THEN RunDefersFifo(Tail(stack), Remove(f, d.path),
                             Append(t, Event("remove", 0, d.path)), o)
          ELSE RunDefersFifo(Tail(stack), f, Append(t, Event("close", 0, "")), FALSE)

\* The deferred calls of Run, last registered first, applied to the file area
\* f, the trace t and the session flag o.
RECURSIVE RunDefers(_, _, _, _)
RunDefers(stack, f, t, o) ==
  IF stack = <<>> THEN [fs |-> f, trace |-> t, open |-> o]
  ELSE LET d == stack[Len(stack)]
           rest == SubSeq(stack, 1, Len(stack) - 1)
       IN IF d.call = "os.Remove"
          THEN RunDefers(rest, Remove(f, d.path),
                         Append(t, Event("remove", 0, d.path)), o)
          ELSE RunDefers(rest, f, Append(t, Event("close", 0, "")), FALSE)

\* `return e` from Run: the deferred calls run, then Run is over.
Return(e, f, t, stack) ==
  LET r == RunDefers(stack, f, t, sshClientOpen)
  IN /\ pc' = "done"
     /\ err' = e
     /\ fs' = r.fs
     /\ trace' = r.trace
     /\ sshClientOpen' = r.open
     /\ defers' = <<>>

\* ioutil.TempFile followed by ioutil.WriteFile, as writePem, writeKnownHosts
\* and writeInventory do it: the outcomes are success, TempFile failing (no
\* file), and WriteFile failing after TempFile made the file.
TempFileWrite(name, content, f) ==
  { [path |-> name, err |-> "nil", fs |-> (name :> content) @@ f, made |-> {name}],
    [path |-> "", err |-> "IOError", fs |-> f, made |-> {}],
    [path |-> "", err |-> "IOError", fs |-> (name :> <<>>) @@ f, made |-> {name}] }

\* Mutant: writePem makes a file whatever the material.
writePemAlways(pk, name, f) == TempFileWrite(name, Text(pk), f)

\* writePem(pk): nothing for empty material, else a temp file holding pk.
writePem(pk, name, f) ==
  IF pk # ""
  THEN TempFileWrite(name, Text(pk), f)
  ELSE {[path |-> "", err |-> "nil", fs |-> f, made |-> {}]}

\* writeKnownHosts(knownHosts): the trimmed entries joined with "\n", then "\n".
KnownHostsContents(knownHosts) ==
  JoinLines([i \in 1..Len(knownHosts) |-> TrimSpace(knownHosts[i])]) \o <<"\n">>

writeKnownHosts(knownHosts, name, f) ==
  TempFileWrite(name, KnownHostsContents(knownHosts), f)

\* The trace after a call that made the files in `made`.
Made(t, made) ==
  IF made = {} THEN t
  ELSE Append(t, Event("create", 0, CHOOSE p \in made : TRUE))

\* ------------------------------------------------------- Run: validation

\* v.ComputeResource()
ComputeResource(ci) == ci.Host # ""

\* Mutant: the validation looks at enabled plays only.
NoHostsNoInventoryEnabledOnly(play) ==
  play.enabled /\ Len(play.hosts) = 0 /\ InventoryFile(play) = ""

\* The play the resource-less validation rejects.
NoHostsNoInventory(play) == Len(play.hosts) = 0 /\ InventoryFile(play) = ""

\* Mutant: the validation block forgets SetOverrideStrictHostKeyChecking().
SettingsNotOverridden(ci, s) == s

\* The settings after the validation block: a resource-less run forces
\* StrictHostKeyChecking=no.
ValidatedSettings(ci, s) ==
  IF ~ComputeResource(ci)
  THEN [s EXCEPT !.overrideStrictHostKeyChecking = TRUE]
  ELSE s

\* Run, validation of the configuration for a resource-less run.
Validate ==
  /\ pc = "validate"
  /\ IF ~ComputeResource(connInfo)
        /\ \E i \in 1..Len(plays) : NoHostsNoInventory(plays[i])
     THEN /\ Return("ConfigError", fs, trace, defers)
          /\ UNCHANGED <<connInfo, connInfo0, settings, plays, playIdx, created,
                         knownHostsTarget, knownHostsBastion, locals,
                         timeoutMs, timeSpentMs>>
     ELSE /\ settings' = ValidatedSettings(connInfo, settings)
          /\ pc' = "bastionPem"
          /\ UNCHANGED <<connInfo, connInfo0, plays, err, playIdx, fs, created,
                         defers, trace, knownHostsTarget, knownHostsBastion,
                         locals, timeoutMs, timeSpentMs, sshClientOpen>>

\* ------------------------------------------------- Run: credential staging

\* One staging block of Run: writePem when the material is non-empty, return
\* on its error, else defer the removal of the file it returned.
StagePem(at, material, name, field, next) ==
  /\ pc = at
  /\ IF material # ""
     THEN \E w \in writePem(material, name, fs) :
            /\ created' = created \cup w.made
            /\ IF w.err # "nil"
               THEN /\ Return(w.err, w.fs, Made(trace, w.made), defers)
                    /\ UNCHANGED locals
               ELSE /\ fs' = w.fs
                    /\ trace' = Made(trace, w.made)
                    /\ locals' = [locals EXCEPT ![field] = w.path]
                    /\ defers' = Append(defers, DeferRemove(w.path))
                    /\ pc' = next
                    /\ UNCHANGED <<err, sshClientOpen>>
     ELSE /\ pc' = next
          /\ UNCHANGED <<err, fs, created, defers, trace, locals, sshClientOpen>>

StageBastionPem ==
  /\ StagePem("bastionPem", connInfo.BastionPrivateKey, "tmp_bastion_pem",
              "bastionPemFile", "targetPem")
  /\ UNCHANGED <<connInfo, connInfo0, settings, plays, playIdx,
                 knownHostsTarget, knownHostsBastion, timeoutMs, timeSpentMs>>

StageTargetPem ==
  /\ StagePem("targetPem", connInfo.PrivateKey, "tmp_target_pem",
              "targetPemFile", "cacertPem")
  /\ UNCHANGED <<connInfo, connInfo0, settings, plays, playIdx,
                 knownHostsTarget, knownHostsBastion, timeoutMs, timeSpentMs>>

\* The CA block, then v.connInfo.Cacert = cacertPemFile.
StageCacertPem ==
  /\ StagePem("cacertPem", connInfo.Cacert, "tmp_cacert_pem",
              "cacertPemFile", "trust")
  /\ connInfo' = IF pc' = "trust"
                 THEN [connInfo EXCEPT !.Cacert = locals'.cacertPemFile]
                 ELSE connInfo
  /\ UNCHANGED <<connInfo0, settings, plays, playIdx,
                 knownHostsTarget, knownHostsBastion, timeoutMs, timeSpentMs>>

\* --------------------------------------------------- Run: trust, with bastion

\* Mutant: the scan branch does not look at the user known-hosts file.
BastionScanIgnoringUserFile(ci, s) ==
  /\ ~InsecureNoStrictHostKeyChecking(s)
  /\ ci.HostKey = ""

\* The bastion branch runs ssh-keyscan for the target: strict checking is on,
\* no user known-hosts file is set and the target has no host key.
BastionScanWanted(ci, s) ==
  /\ ~InsecureNoStrictHostKeyChecking(s)
  /\ s.userKnownHostsFile = ""
  /\ ci.HostKey = ""

\* Mutant: the declared-key branch does not look at the user known-hosts file.
BastionDeclaredIgnoringUserFile(ci, s) ==
  /\ ~InsecureNoStrictHostKeyChecking(s)
  /\ ci.HostKey # ""

\* The bastion branch takes the target's line from the declared host key.
BastionDeclaredWanted(ci, s) ==
  /\ ~InsecureNoStrictHostKeyChecking(s)
  /\ s.userKnownHostsFile = ""
  /\ ci.HostKey # ""

\* fmt.Sprintf("%s %s", target.host(), target.hostKey())
TargetLine(ci) == SprintfPair(ci.Host, ci.HostKey)

\* fmt.Sprintf("%s %s", bastion.host(), bastion.hostKey())
BastionLine(ci) == SprintfPair(ci.BastionHost, ci.BastionHostKey)

\* What ssh-keyscan prints for the target: full lines, host first.
ScanOutput(ci) == Text(ci.Host) \o <<" ", "ssh-ed25519-SCANNED", "\n">>

\* The bastion host key once the session is up: the declared one, else the one
\* the session offered, when connect() keeps it.
SessionHostKeys(ci) ==
  IF ci.BastionHostKey # "" THEN {ci.BastionHostKey} ELSE {"", "ssh-rsa-BASTION"}

\* Run, bastion in use: bastion.connect(), then the branches that need no scan.
BastionConnect ==
  /\ pc = "trust"
  /\ bastionInUse(connInfo)
  /\ \E ok \in BOOLEAN : \E k \in SessionHostKeys(connInfo) :
       LET t == Append(trace, Event("connect", 0, IF ok THEN "ok" ELSE "err"))
           ci == [connInfo EXCEPT !.BastionHostKey = k]
       IN IF ~ok
          THEN /\ Return("BastionConnectError", fs, t, defers)
               /\ UNCHANGED <<connInfo, knownHostsTarget, knownHostsBastion>>
          ELSE /\ connInfo' = ci
               /\ sshClientOpen' = TRUE
               /\ defers' = Append(defers, DeferClose)
               /\ trace' = t
               /\ IF BastionScanWanted(ci, settings)
                  THEN /\ pc' = "scan"
                       /\ UNCHANGED <<knownHostsTarget, knownHostsBastion>>
                  ELSE /\ knownHostsTarget' =
                            IF BastionDeclaredWanted(ci, settings)
                            THEN Append(knownHostsTarget, TargetLine(ci))
                            ELSE knownHostsTarget
                       /\ knownHostsBastion' =
                            Append(knownHostsBastion, BastionLine(ci))
                       /\ pc' = "knownHostsBastion"
               /\ UNCHANGED <<err, fs>>
  /\ UNCHANGED <<connInfo0, settings, plays, playIdx, created, locals,
                 timeoutMs, timeSpentMs>>

\* Mutant: a failed scan is tried a second time.
BastionKeyScanRetrying ==
  /\ pc = "scan"
  /\ \E ok \in BOOLEAN :
       LET t == Append(trace, Event("scan", 0, IF ok THEN "ok" ELSE "err"))
           first == \A k \in 1..Len(trace) : trace[k].op # "scan"
       IN IF ~ok /\ first
          THEN /\ trace' = t
               /\ UNCHANGED <<pc, err, fs, defers, sshClientOpen,
                              knownHostsTarget, knownHostsBastion>>
          ELSE IF ~ok
          THEN /\ Return("BastionScanError", fs, t, defers)
               /\ UNCHANGED <<knownHostsTarget, knownHostsBastion>>
          ELSE /\ knownHostsTarget' = Append(knownHostsTarget, ScanOutput(connInfo))
               /\ knownHostsBastion' =
                    Append(knownHostsBastion, BastionLine(connInfo))
               /\ trace' = t
               /\ pc' = "knownHostsBastion"
               /\ UNCHANGED <<err, fs, defers, sshClientOpen>>
  /\ UNCHANGED <<connInfo, connInfo0, settings, plays, playIdx, created, locals,
                 timeoutMs, timeSpentMs>>

\* Run, bastion in use: newBastionKeyScan(...).scan(), not retried.
BastionKeyScan ==
  /\ pc = "scan"
  /\ \E ok \in BOOLEAN :
       LET t == Append(trace, Event("scan", 0, IF ok THEN "ok" ELSE "err"))
       IN IF ~ok
          THEN /\ Return("BastionScanError", fs, t, defers)
               /\ UNCHANGED <<knownHostsTarget, knownHostsBastion>>
          ELSE /\ knownHostsTarget' = Append(knownHostsTarget, ScanOutput(connInfo))
               /\ knownHostsBastion' =
                    Append(knownHostsBastion, BastionLine(connInfo))
               /\ trace' = t
               /\ pc' = "knownHostsBastion"
               /\ UNCHANGED <<err, fs, defers, sshClientOpen>>
  /\ UNCHANGED <<connInfo, connInfo0, settings, plays, playIdx, created, locals,
                 timeoutMs, timeSpentMs>>

\* ------------------------------------------------------ Run: trust, direct

\* The direct branch resolves a target line: not winrm, strict checking on, a
\* compute resource, no user known-hosts file.
DirectTrustWanted(ci, s) ==
  /\ ci.Type # "winrm"
  /\ ~InsecureNoStrictHostKeyChecking(s)
  /\ ComputeResource(ci)
  /\ s.userKnownHostsFile = ""

\* The direct branch has to fetch the key: neither host key nor password given.
DirectDiscoverWanted(ci) == ci.HostKey = "" /\ ci.Password = ""

\* Mutant: the loop gives up as soon as the wait reaches the ceiling.
TimedOutAtCeiling(spent, timeout) == spent >= timeout

\* The ceiling test of the retry loop.
TimedOut(spent, timeout) == spent > timeout

\* Run, no bastion: the branch taken, up to the entry of the retry loop.
DirectTrust ==
  /\ pc = "trust"
  /\ ~bastionInUse(connInfo)
  /\ IF DirectTrustWanted(connInfo, settings)
     THEN IF DirectDiscoverWanted(connInfo)
          THEN /\ timeoutMs' = settings.sshKeyscanSeconds * 1000
               /\ timeSpentMs' = 0
               /\ pc' = "fetch"
               /\ UNCHANGED knownHostsTarget
          ELSE /\ knownHostsTarget' = Append(knownHostsTarget, TargetLine(connInfo))
               /\ pc' = "knownHostsBastion"
               /\ UNCHANGED <<timeoutMs, timeSpentMs>>
     ELSE /\ pc' = "knownHostsBastion"
          /\ UNCHANGED <<knownHostsTarget, timeoutMs, timeSpentMs>>
  /\ UNCHANGED <<connInfo, connInfo0, settings, plays, err, playIdx, fs, created,
                 defers, trace, knownHostsBastion, locals, sshClientOpen>>

\* Mutant: the check for a key that never arrived is missing after the loop.
FetchVerdictNoKeyCheck(outcome, spent, timeout) ==
  CASE outcome = "err" /\ TimedOut(spent, timeout) -> "return err"
    [] outcome = "err" /\ ~TimedOut(spent, timeout) -> "retry"
    [] outcome \in {"key", "nokey"} -> "line"

\* What Run does after one call of target.fetchHostKey(): on an error it
\* sleeps, adds the interval and returns the error past the ceiling ("return
\* err") or goes round again ("retry"); without an error it leaves the loop
\* and returns the no-host-key error when target.hostKey() is still empty
\* ("no host key"), else appends the target's line ("line").
FetchVerdict(outcome, spent, timeout) ==
  CASE outcome = "err" /\ TimedOut(spent, timeout) -> "return err"
    [] outcome = "err" /\ ~TimedOut(spent, timeout) -> "retry"
    [] outcome = "nokey" -> "no host key"
    [] outcome = "key" -> "line"

\* One round of the retry loop.  target.fetchHostKey() fails ("err"), or
\* returns with the key stored ("key"), or returns without error and without
\* a key ("nokey").
FetchHostKey ==
  /\ pc = "fetch"
  /\ \E outcome \in {"err", "key", "nokey"} :
       LET t == Append(trace, Event("fetch", 0, outcome))
           spent == IF outcome = "err" THEN timeSpentMs + intervalMs
                    ELSE timeSpentMs
           verdict == FetchVerdict(outcome, spent, timeoutMs)
           ci == IF outcome = "key"
                 THEN [connInfo EXCEPT !.HostKey = "ssh-rsa-FETCHED"]
                 ELSE connInfo
       IN /\ timeSpentMs' = spent
          /\ connInfo' = ci
          /\ CASE verdict = "return err" ->
                    /\ Return("FetchError", fs, t, defers)
                    /\ UNCHANGED knownHostsTarget
               [] verdict = "retry" ->
                    /\ trace' = t
                    /\ UNCHANGED <<pc, err, fs, defers, sshClientOpen,
                                   knownHostsTarget>>
               [] verdict = "no host key" ->
                    /\ Return("NoHostKeyReceived", fs, t, defers)
                    /\ UNCHANGED knownHostsTarget
               [] verdict = "line" ->
                    /\ knownHostsTarget' = Append(knownHostsTarget, TargetLine(ci))
                    /\ trace' = t
                    /\ pc' = "knownHostsBastion"
                    /\ UNCHANGED <<err, fs, defers, sshClientOpen>>
  /\ UNCHANGED <<connInfo0, settings, plays, playIdx, created, knownHostsBastion,
                 locals, timeoutMs>>

\* ------------------------------------------------------ Run: known-hosts files

\* One known-hosts block of Run: writeKnownHosts, return on its error, else
\* defer the removal of the file.
StageKnownHosts(at, knownHosts, name, field, next) ==
  /\ pc = at
  /\ \E w \in writeKnownHosts(knownHosts, name, fs) :
       /\ created' = created \cup w.made
       /\ IF w.err # "nil"
          THEN /\ Return(w.err, w.fs, Made(trace, w.made), defers)
               /\ UNCHANGED locals
          ELSE /\ fs' = w.fs
               /\ trace' = Made(trace, w.made)
               /\ locals' = [locals EXCEPT ![field] = w.path]
               /\ defers' = Append(defers, DeferRemove(w.path))
               /\ pc' = next
               /\ UNCHANGED <<err, sshClientOpen>>
  /\ UNCHANGED <<connInfo, connInfo0, settings, plays, playIdx,
                 knownHostsTarget, knownHostsBastion, timeoutMs, timeSpentMs>>

WriteKnownHostsBastion ==
  StageKnownHosts("knownHostsBastion", knownHostsBastion,
                  "tmp_known_hosts_bastion", "knownHostsFileBastion",
                  "knownHostsTarget")

WriteKnownHostsTarget ==
  StageKnownHosts("knownHostsTarget", knownHostsTarget,
                  "tmp_known_hosts_target", "knownHostsFileTarget", "plays")

\* ------------------------------------------------------------ writeInventory

Host(alias, ansibleHost, ci) ==
  [Alias |-> alias, AnsibleHost |-> ansibleHost, Username |-> ci.User,
   Password |-> ci.Password]

\* The hosts of a null-resource play: one entry per non-empty declared host.
RECURSIVE DeclaredHosts(_, _)
DeclaredHosts(playHosts, ci) ==
  IF playHosts = <<>> THEN <<>>
  ELSE (IF Head(playHosts) # "" THEN <<Host(Head(playHosts), "", ci)>> ELSE <<>>)
       \o DeclaredHosts(Tail(playHosts), ci)

\* Mutant: the host selection does not look for empty host names.
InventoryHostsAnyName(play, ci) ==
  IF ci.Type # "ssh" THEN <<>>
  ELSE IF ci.Host # ""
  THEN IF Len(play.hosts) > 0
       THEN <<Host(play.hosts[1], ci.Host, ci)>>
       ELSE <<Host(ci.Host, "", ci)>>
  ELSE [k \in 1..Len(play.hosts) |-> Host(play.hosts[k], "", ci)]

\* templateData.Hosts for the ssh protocol.
InventoryHosts(play, ci) ==
  IF ci.Type # "ssh" THEN <<>>
  ELSE IF ci.Host # ""
  THEN IF Len(play.hosts) > 0
       THEN IF play.hosts[1] # ""
            THEN <<Host(play.hosts[1], ci.Host, ci)>>
            ELSE <<Host(ci.Host, "", ci)>>
       ELSE <<Host(ci.Host, "", ci)>>
  ELSE DeclaredHosts(play.hosts, ci)

\* One host line of inventoryTemplateLocal: the alias, then ansible_host.
HostLine(h) ==
  Text(h.Alias)
  \o (IF h.AnsibleHost # "" THEN <<" ", "ansible_host=", h.AnsibleHost>> ELSE <<>>)
  \o <<"\n">>

\* What one round of {{range .Hosts}} prints: the host line and, inside the
\* same range, the [host:vars] block.
HostBlock(h) ==
  HostLine(h)
  \o <<"[host:vars]", "\n">>
  \o <<" ", "ansible_user=">> \o Text(h.Username) \o <<"\n">>
  \o <<" ", "ansible_ssh_common_args='-o StrictHostKeyChecking=no'", "\n", "\n">>
  \o (IF h.Password # ""
      THEN <<" ", "ansible_password=", h.Password, "\n">> ELSE <<>>)

RECURSIVE Concat(_)
Concat(seqs) == IF seqs = <<>> THEN <<>> ELSE Head(seqs) \o Concat(Tail(seqs))

\* What one round of {{range .Groups}} prints.
GroupBlock(g, hosts) ==
  <<"[", g, "]", "\n">>
  \o Concat([i \in 1..Len(hosts) |-> HostLine(hosts[i])])
  \o <<"\n", "\n">>

\* inventoryTemplateLocal executed on templateData.
RenderLocal(hosts, groups) ==
  <<"[host]", "\n">>
  \o Concat([i \in 1..Len(hosts) |-> HostBlock(hosts[i])])
  \o <<"\n", "\n">>
  \o Concat([i \in 1..Len(groups) |-> GroupBlock(groups[i], hosts)])

\* windowsInventoryTemplateLocal executed on the one windows host.
RenderWindows(ci) ==
  <<"[windows]", "\n">>
  \o (IF ci.Host # "" THEN <<" ", ci.Host>> ELSE <<>>)
  \o <<"\n", "[windows:vars]", "\n">>
  \o (IF ci.User # "" THEN <<" ", "ansible_user=", ci.User, "\n">> ELSE <<>>)
  \o (IF ci.Password # "" THEN <<" ", "ansible_password=", ci.Password>> ELSE <<>>)
  \o (IF ci.Port # "0" THEN <<"\n", " ", "ansible_port=", ci.Port, "\n">> ELSE <<>>)
  \o (IF ci.Type # "" THEN <<" ", "ansible_connection=", ci.Type, "\n">> ELSE <<>>)
  \o (IF ci.Ntlm THEN <<"\n", " ", "ansible_winrm_transport=", "true", "\n">> ELSE <<>>)
  \o (IF ci.Cacert = ""
      THEN <<" ", "ansible_winrm_server_cert_validation=ignore", "\n", "\n">>
      ELSE <<>>)
  \o <<" ", "ansible_winrm_read_timeout_sec=900", "\n">>
  \o <<" ", "ansible_winrm_operation_timeout_sec=800", "\n", "\n">>
  \o (IF ci.Cacert # ""
      THEN <<" ", "ansible_winrm_ca_trust_path=", ci.Cacert, "\n">> ELSE <<>>)

\* The buffer writeInventory writes.
InventoryContents(play, ci) ==
  IF ci.Type = "ssh" THEN RenderLocal(InventoryHosts(play, ci), play.groups)
  ELSE IF ci.Type = "winrm" THEN RenderWindows(ci)
  ELSE <<>>

\* t.Execute(&buf, data): the whole document and no error, or an error with
\* the buffer holding what was rendered before it (nothing, or a part).
Executed(content) ==
  {[buf |-> content, err |-> "nil"],
   [buf |-> <<>>, err |-> "RenderError"],
   [buf |-> SubSeq(content, 1, Len(content) \div 2), err |-> "RenderError"]}

\* Mutant: writeInventory returns the error of t.Execute.
AfterExecuteFatal(e) == e

\* What writeInventory returns because of the error of t.Execute: the error
\* value built by fmt.Errorf is dropped, so nothing.
AfterExecute(e) == "nil"

\* Mutant: writeInventory renders a temp file whatever the play supplies.
writeInventoryAlways(play, ci, name, f) ==
  {[path |-> w.path, err |-> w.err, fs |-> w.fs, made |-> w.made, render |-> "nil"]
   : w \in TempFileWrite(name, InventoryContents(play, ci), f)}

\* writeInventory(play): the play's own inventory file when it has one, else a
\* temp file with the rendered buffer.
writeInventory(play, ci, name, f) ==
  IF InventoryFile(play) = ""
  THEN UNION {
         IF AfterExecute(x.err) # "nil"
         THEN {[path |-> "", err |-> AfterExecute(x.err), fs |-> f, made |-> {},
                render |-> x.err]}
         ELSE {[path |-> w.path, err |-> w.err, fs |-> w.fs, made |-> w.made,
                render |-> x.err] : w \in TempFileWrite(name, x.buf, f)}
         : x \in Executed(InventoryContents(play, ci)) }
  ELSE {[path |-> InventoryFile(play), err |-> "nil", fs |-> f, made |-> {},
         render |-> "nil"]}

\* ------------------------------------------------------------ Run: play loop

\* The name ioutil.TempFile gives the inventory of the i-th play.
InventoryTmp(i) == "tmp_inventory_" \o ToString(i)

\* Mutant: the loop does not skip disabled plays.
NeverSkipped(play) == FALSE

\* The play is skipped: `if !play.Enabled() { continue }`.
PlaySkipped(play) == ~play.enabled

\* Mutant: the protocol is compared with a name that is never configured.
ProbeWantedWrongName(ci) == ci.Type = "WinRM"

\* Run needs the readiness probe before applying a play.
ProbeWanted(ci) == ci.Type = "winrm"

\* The trace after a step of the i-th play ended with error e.
Failed(t, i, e) == Append(t, Event("fail", i, e))

\* The loop is over: return nil.
PlaysDone ==
  /\ pc = "plays"
  /\ playIdx > Len(plays)
  /\ Return("nil", fs, trace, defers)
  /\ UNCHANGED <<connInfo, connInfo0, settings, plays, playIdx, created,
                 knownHostsTarget, knownHostsBastion, locals, timeoutMs,
                 timeSpentMs>>

\* A disabled play: continue.
SkipDisabledPlay ==
  /\ pc = "plays"
  /\ playIdx <= Len(plays)
  /\ PlaySkipped(plays[playIdx])
  /\ playIdx' = playIdx + 1
  /\ UNCHANGED <<connInfo, connInfo0, settings, plays, pc, err, fs, created,
                 defers, trace, knownHostsTarget, knownHostsBastion, locals,
                 timeoutMs, timeSpentMs, sshClientOpen>>

\* An enabled play: writeInventory, and the override with its deferred removal
\* when the inventory is not the play's own.
WriteInventory ==
  /\ pc = "plays"
  /\ playIdx <= Len(plays)
  /\ ~PlaySkipped(plays[playIdx])
  /\ \E w \in writeInventory(plays[playIdx], connInfo, InventoryTmp(playIdx), fs) :
       LET t == Made(IF w.render # "nil"
                     THEN Append(trace, Event("render", playIdx, w.render))
                     ELSE trace, w.made)
       IN
       /\ created' = created \cup w.made
       /\ IF w.err # "nil"
          THEN /\ Return(w.err, w.fs, Failed(t, playIdx, w.err), defers)
               /\ UNCHANGED <<plays, locals>>
          ELSE LET play == plays[playIdx]
                   overridden == SetOverrideInventoryFile(play, w.path)
               IN /\ fs' = w.fs
                  /\ trace' = t
                  /\ locals' = [locals EXCEPT !.inventoryFile = w.path]
                  /\ IF w.path # InventoryFile(play)
                     THEN /\ plays' = [plays EXCEPT ![playIdx] = overridden]
                          /\ defers' = Append(defers,
                                              DeferRemove(InventoryFile(overridden)))
                     ELSE UNCHANGED <<plays, defers>>
                  /\ pc' = IF ProbeWanted(connInfo) THEN "probe" ELSE "command"
                  /\ UNCHANGED <<err, sshClientOpen>>
  /\ UNCHANGED <<connInfo, connInfo0, settings, playIdx, knownHostsTarget,
                 knownHostsBastion, timeoutMs, timeSpentMs>>

\* winrm: runCommand(moduleCommand) with the play's inventory.
ReadinessProbe ==
  /\ pc = "probe"
  /\ \E ok \in BOOLEAN :
       LET t == Append(trace, Event("probe", playIdx, locals.inventoryFile))
       IN IF ok
          THEN /\ trace' = t
               /\ pc' = "command"
               /\ UNCHANGED <<err, fs, defers, sshClientOpen>>
          ELSE Return("ProbeError", fs, Failed(t, playIdx, "ProbeError"), defers)
  /\ UNCHANGED <<connInfo, connInfo0, settings, plays, playIdx, created,
                 knownHostsTarget, knownHostsBastion, locals, timeoutMs,
                 timeSpentMs>>

\* play.ToLocalCommand(args, ansibleSSHSettings)
ToLocalCommand ==
  /\ pc = "command"
  /\ \E ok \in BOOLEAN :
       IF ok
       THEN /\ pc' = "apply"
            /\ UNCHANGED <<err, fs, defers, trace, sshClientOpen>>
       ELSE Return("CommandError", fs, Failed(trace, playIdx, "CommandError"),
                   defers)
  /\ UNCHANGED <<connInfo, connInfo0, settings, plays, playIdx, created,
                 knownHostsTarget, knownHostsBastion, locals, timeoutMs,
                 timeSpentMs>>

\* Mutant: the error of the apply step is not looked at.
ApplyErrorIgnored(e) == FALSE

\* `if err := v.runCommand(command); err != nil { return err }`
ApplyFailed(e) == e # "nil"

\* runCommand(command): the apply step of the play.
Apply ==
  /\ pc = "apply"
  /\ \E e \in {"nil", "ApplyError"} :
       LET t == Append(trace, Event("apply", playIdx, InventoryFile(plays[playIdx])))
       IN IF ApplyFailed(e)
          THEN /\ Return(e, fs, Failed(t, playIdx, e), defers)
               /\ UNCHANGED playIdx
          ELSE /\ trace' = IF e # "nil" THEN Failed(t, playIdx, e) ELSE t
               /\ pc' = "plays"
               /\ playIdx' = playIdx + 1
               /\ UNCHANGED <<err, fs, defers, sshClientOpen>>
  /\ UNCHANGED <<connInfo, connInfo0, settings, plays, created,
                 knownHostsTarget, knownHostsBastion, locals, timeoutMs,
                 timeSpentMs>>

\* ------------------------------------------------------------ specification

Next ==
  \/ Validate
  \/ StageBastionPem
  \/ StageTargetPem
  \/ StageCacertPem
  \/ BastionConnect
  \/ BastionKeyScan
  \/ DirectTrust
  \/ FetchHostKey
  \/ WriteKnownHostsBastion
  \/ WriteKnownHostsTarget
  \/ PlaysDone
  \/ SkipDisabledPlay
  \/ WriteInventory
  \/ ReadinessProbe
  \/ ToLocalCommand
  \/ Apply

Spec == Init /\ [][Next]_vars

\* ------------------------------------------------------------------ claims

\* The external calls of one kind made so far.
Calls(op) == {i \in 1..Len(trace) : trace[i].op = op}

\* The handshake attempts made so far, all of them and the failed ones.
Fetches == Cardinality(Calls("fetch"))
FailedFetches == Cardinality({i \in Calls("fetch") : trace[i].arg = "err"})

\* How the last handshake attempt ended ("none" before the first).
LastFetchOutcome ==
  IF Calls("fetch") = {} THEN "none"
  ELSE trace[CHOOSE i \in Calls("fetch") : \A j \in Calls("fetch") : j <= i].arg

\* A host-key discovery probe was run against the target.
Probed == Calls("scan") # {} \/ Calls("fetch") # {}

\* C1: once Run has returned, on any exit path, no temp file that the run
\* created exists any more, a file whose content write failed included.
C1_CreatedFilesRemoved ==
  pc = "done" => created \cap DOMAIN fs = {}

\* C2: in a resource-less run with a play that declares no hosts and has no
\* inventory file, at any position and enabled or not, Run returns the
\* configuration error and nothing was created, connected to or executed.
C2_ResourceLessValidation ==
  (/\ connInfo0.Host = ""
   /\ \E i \in 1..Len(plays) :
        Len(plays[i].hosts) = 0 /\ plays[i].inventoryFile = "")
  => /\ trace = <<>>
     /\ created = {}
     /\ DOMAIN fs = {UserInventory}
     /\ ~sshClientOpen
     /\ pc \in {"validate", "done"}
     /\ pc = "done" => err = "ConfigError"

C2_Witness ==
  /\ pc = "done"
  /\ err = "ConfigError"
  /\ connInfo0.Host = ""
  /\ Len(plays) = 2
  /\ plays[1].enabled /\ Len(plays[1].hosts) > 0
  /\ ~plays[2].enabled /\ Len(plays[2].hosts) = 0 /\ plays[2].inventoryFile = ""

\* C3: direct discovery against a target whose every handshake fails: with a
\* ceiling of T seconds at most T \div 5 + 1 attempts are made, after that
\* many failures Run has returned the handshake error, the accumulated sleep
\* never exceeds T*1000 + 5000 ms, Run gives up only with the wait strictly
\* above the ceiling, and a failure with the wait at or below the ceiling
\* leaves the loop running.
C3_BoundedRetry ==
  LET T == settings.sshKeyscanSeconds
  IN /\ timeSpentMs <= T * 1000 + 5000
     /\ timeSpentMs = FailedFetches * 5000
     /\ (Fetches > 0 /\ Fetches = FailedFetches)
        => /\ Fetches <= T \div 5 + 1
           /\ Fetches = T \div 5 + 1 => (pc = "done" /\ err = "FetchError")
           /\ timeSpentMs <= T * 1000 => (pc = "fetch" /\ err = "running")
     /\ err = "FetchError" => (pc = "done" /\ timeSpentMs > T * 1000)

C3_Witness ==
  /\ pc = "done"
  /\ err = "FetchError"
  /\ settings.sshKeyscanSeconds = 10
  /\ Fetches = 3
  /\ FailedFetches = 3
  /\ timeSpentMs = 15000

\* C4 as stated: when the ceiling is exceeded and no host key was obtained,
\* Run fails with the no-host-key-received error.
C4_NoHostKeyPastCeiling ==
  (/\ pc = "done"
   /\ Fetches > 0
   /\ timeSpentMs > settings.sshKeyscanSeconds * 1000
   /\ connInfo.HostKey = "")
  => err = "NoHostKeyReceived"

\* C4, amended: past the ceiling Run fails with the error of the last failed
\* handshake; it fails with the no-host-key-received error exactly when a
\* handshake returned without error and no key had arrived, whatever the
\* accumulated wait; both abort the run before any known-hosts file is written.
C4_NoHostKeyAfterHandshake ==
  /\ (Fetches > 0 /\ timeSpentMs > settings.sshKeyscanSeconds * 1000)
     => (pc = "done" /\ err = "FetchError")
  /\ err = "NoHostKeyReceived"
     <=> LastFetchOutcome = "nokey"
  /\ err \in {"FetchError", "NoHostKeyReceived"}
     => /\ pc = "done"
        /\ connInfo.HostKey = ""
        /\ knownHostsTarget = <<>>
        /\ locals.knownHostsFileBastion = ""
        /\ locals.knownHostsFileTarget = ""
        /\ Calls("apply") = {}

C4_Witness ==
  /\ pc = "done"
  /\ err = "NoHostKeyReceived"
  /\ FailedFetches = 1
  /\ timeSpentMs <= settings.sshKeyscanSeconds * 1000

\* Strict checking is disabled (policy 1) or a user known-hosts file is
\* configured (policy 2).
NoTrustPolicy ==
  InsecureNoStrictHostKeyChecking(settings) \/ settings.userKnownHostsFile # ""

\* C5 as stated: under policy 1 or 2 both known-hosts lists are empty, with or
\* without a bastion.
C5_BothListsEmpty ==
  NoTrustPolicy => (knownHostsTarget = <<>> /\ knownHostsBastion = <<>>)

\* C5, amended: under policy 1 or 2 the target known-hosts list is empty and
\* the target known-hosts file holds no line; the bastion list is empty only
\* without a bastion, and with a bastion it holds exactly the bastion's line.
C5_TargetListEmpty ==
  NoTrustPolicy
  => /\ knownHostsTarget = <<>>
     /\ locals.knownHostsFileTarget # ""
        => (locals.knownHostsFileTarget \in DOMAIN fs
            => fs[locals.knownHostsFileTarget] = <<"\n">>)
     /\ ~bastionInUse(connInfo) => knownHostsBastion = <<>>
     /\ (bastionInUse(connInfo) /\ pc \in {"knownHostsBastion", "knownHostsTarget",
                                           "plays", "probe", "command", "apply"})
        => knownHostsBastion = <<BastionLine(connInfo)>>

C5_Witness ==
  /\ NoTrustPolicy
  /\ bastionInUse(connInfo)
  /\ connInfo0.HostKey # ""
  /\ pc = "plays"
  /\ knownHostsTarget = <<>>
  /\ Len(knownHostsBastion) = 1
  /\ fs[locals.knownHostsFileTarget] = <<"\n">>

\* C6: under policy 1 or 2 no host-key discovery probe is run against the
\* target, neither the bastion-tunneled scan nor the direct handshake.
C6_NoProbeWithoutStrictChecking ==
  NoTrustPolicy => ~Probed

C6_Witness ==
  /\ settings.userKnownHostsFile # ""
  /\ ~settings.insecureNoStrictHostKeyChecking
  /\ bastionInUse(connInfo)
  /\ connInfo0.HostKey = ""
  /\ connInfo0.Password = ""
  /\ Calls("connect") # {}
  /\ pc = "done"
  /\ err = "nil"

\* C7: with a declared target host key or a declared target password no probe
\* is made for the target's host key, with or without a bastion.
C7_NoProbeWhenDeclared ==
  (connInfo0.HostKey # "" \/ connInfo0.Password # "") => ~Probed

\* C8: for winrm no bastion connection is opened, no scan or handshake is run
\* and both known-hosts lists stay empty, bastion fields present or not.
C8_WinrmSkipsBastionAndTrust ==
  connInfo0.Type = "winrm"
  => /\ Calls("connect") = {}
     /\ ~Probed
     /\ knownHostsTarget = <<>>
     /\ knownHostsBastion = <<>>

\* C9: in a resource-less run strict checking is forced off once the
\* validation has passed: no probe is run against the target and no target
\* line is produced, with or without a bastion, whatever the user's setting.
C9_ResourceLessNoTrust ==
  connInfo0.Host = ""
  => /\ ~Probed
     /\ knownHostsTarget = <<>>
     /\ (pc # "validate" /\ err # "ConfigError")
        => settings.overrideStrictHostKeyChecking

C9_Witness ==
  /\ connInfo0.Host = ""
  /\ bastionInUse(connInfo)
  /\ ~settings.insecureNoStrictHostKeyChecking
  /\ settings.userKnownHostsFile = ""
  /\ connInfo0.HostKey = ""
  /\ connInfo0.Password = ""
  /\ Calls("connect") # {}
  /\ pc = "done"
  /\ err = "nil"

\* C10: for a disabled play nothing is done (no inventory written, no
\* override set, no probe, no apply), and a run that returns success has
\* applied every enabled play, those after a disabled one too.
C10_DisabledPlaySkipped ==
  /\ \A i \in 1..Len(plays) :
       ~plays[i].enabled
       => /\ plays[i].overrideInventoryFile = ""
          /\ InventoryTmp(i) \notin created
          /\ \A j \in 1..Len(trace) : trace[j].n # i
  /\ (pc = "done" /\ err = "nil")
     => \A i \in 1..Len(plays) :
          plays[i].enabled => \E j \in Calls("apply") : trace[j].n = i

C10_Witness ==
  /\ pc = "done"
  /\ err = "nil"
  /\ Len(plays) = 2
  /\ ~plays[1].enabled
  /\ plays[2].enabled
  /\ \E j \in Calls("apply") : trace[j].n = 2

\* C11: the steps of the plays are made in declaration order, a failed step of
\* play i ends the run with that error and nothing is written or executed for
\* a later play, and a run that returns success has applied every enabled
\* play, none of them failing.
C11_InOrderAbortOnFirstError ==
  /\ \A a, b \in 1..Len(trace) :
       (a < b /\ trace[a].n > 0 /\ trace[b].n > 0) => trace[a].n <= trace[b].n
  /\ \A a, b \in Calls("apply") : a < b => trace[a].n < trace[b].n
  /\ \A k \in Calls("fail") :
       /\ pc = "done"
       /\ err = trace[k].arg
       /\ \A j \in (k + 1)..Len(trace) : trace[j].op \in {"remove", "close"}
       /\ \A i \in (trace[k].n + 1)..Len(plays) : InventoryTmp(i) \notin created
  /\ (pc = "done" /\ err = "nil")
     => /\ Calls("fail") = {}
        /\ \A i \in 1..Len(plays) :
             plays[i].enabled
             => Cardinality({j \in Calls("apply") : trace[j].n = i}) = 1

C11_Witness ==
  /\ pc = "done"
  /\ err = "ApplyError"
  /\ Len(plays) = 2
  /\ plays[1].enabled /\ plays[2].enabled
  /\ Cardinality(Calls("apply")) = 1
  /\ \E k \in Calls("fail") : trace[k].n = 1

\* C12: for winrm every apply command of a play comes after the readiness
\* probe of that play, run against the same inventory file, which exists by
\* then; a failed probe ends the run with its error and the play is not
\* applied.  For ssh no probe is ever run.
C12_ReadinessProbe ==
  /\ connInfo.Type = "ssh" => Calls("probe") = {}
  /\ connInfo.Type = "winrm"
     => \A k \in Calls("apply") :
          \E p \in Calls("probe") :
            /\ p < k
            /\ trace[p].n = trace[k].n
            /\ trace[p].arg = trace[k].arg
            /\ trace[p].arg # ""
            /\ trace[p].arg # UserInventory
               => \E c \in Calls("create") : c < p /\ trace[c].arg = trace[p].arg
  /\ \A k \in Calls("fail") :
       trace[k].arg = "ProbeError"
       => /\ pc = "done"
          /\ err = "ProbeError"
          /\ \A j \in Calls("apply") : trace[j].n # trace[k].n

C12_Witness ==
  /\ connInfo.Type = "winrm"
  /\ pc = "done"
  /\ err = "ProbeError"
  /\ playIdx = 2
  /\ \E j \in Calls("apply") : trace[j].n = 1
  /\ \E p \in Calls("probe") : trace[p].n = 1 /\ trace[p].arg = InventoryTmp(1)

\* C13: for a play with an inventory file of its own, writeInventory makes no
\* file and returns that path; Run sets no override on the play, hands that
\* path to the readiness probe and to the apply command, and never removes
\* the file.
C13_OwnInventoryUntouched ==
  \A i \in 1..Len(plays) :
    plays[i].inventoryFile # ""
    => /\ \A w \in writeInventory(plays[i], connInfo, InventoryTmp(i), fs) :
            /\ w.path = plays[i].inventoryFile
            /\ w.err = "nil"
            /\ w.made = {}
            /\ w.fs = fs
       /\ plays[i].overrideInventoryFile = ""
       /\ InventoryTmp(i) \notin created
       /\ \A k \in Calls("probe") \cup Calls("apply") :
            trace[k].n = i => trace[k].arg = plays[i].inventoryFile
       /\ \A k \in Calls("remove") : trace[k].arg # plays[i].inventoryFile
       /\ \A k \in 1..Len(defers) : defers[k].path # plays[i].inventoryFile
       /\ plays[i].inventoryFile \in DOMAIN fs
       /\ fs[plays[i].inventoryFile] = <<"[user]">>

C13_Witness ==
  /\ pc = "done"
  /\ err = "nil"
  /\ connInfo.Type = "winrm"
  /\ \E i \in 1..Len(plays) :
       /\ plays[i].inventoryFile = UserInventory
       /\ \E k \in Calls("probe") : trace[k].n = i /\ trace[k].arg = UserInventory
       /\ \E k \in Calls("apply") : trace[k].n = i /\ trace[k].arg = UserInventory

\* The three materials Run stages, with the temp file and the local of each
\* and the positions of Run that come after its staging block.
Staged ==
  {[material |-> connInfo0.BastionPrivateKey, name |-> "tmp_bastion_pem",
    path |-> locals.bastionPemFile,
    before |-> {"validate", "bastionPem"}],
   [material |-> connInfo0.PrivateKey, name |-> "tmp_target_pem",
    path |-> locals.targetPemFile,
    before |-> {"validate", "bastionPem", "targetPem"}],
   [material |-> connInfo0.Cacert, name |-> "tmp_cacert_pem",
    path |-> locals.cacertPemFile,
    before |-> {"validate", "bastionPem", "targetPem", "cacertPem"}]}

\* C14: writePem of empty material returns the empty path, no error and makes
\* no file; writePem of non-empty material that returns without error has made
\* exactly one new file, holding the material, and returns its path.  Run
\* stages a file for the bastion key, the target key and the CA certificate
\* exactly when the material is not empty.
C14_CredentialStaging ==
  /\ \A name \in {"tmp_bastion_pem", "tmp_target_pem", "tmp_cacert_pem"} :
       /\ writePem("", name, fs) = {[path |-> "", err |-> "nil", fs |-> fs, made |-> {}]}
       /\ name \notin DOMAIN fs
          => \A pk \in PemMaterial \ {""} :
               \A w \in writePem(pk, name, fs) :
                 w.err = "nil"
                 => /\ w.path = name
                    /\ w.made = {name}
                    /\ DOMAIN w.fs = DOMAIN fs \cup {name}
                    /\ w.fs[name] = <<pk>>
                    /\ \A p \in DOMAIN fs : w.fs[p] = fs[p]
  /\ \A s \in Staged :
       /\ s.material = "" => (s.path = "" /\ s.name \notin created)
       /\ (s.material # "" /\ pc \notin s.before \cup {"done"})
          => /\ s.path = s.name
             /\ s.name \in DOMAIN fs
             /\ fs[s.name] = <<s.material>>
             /\ Cardinality({k \in Calls("create") : trace[k].arg = s.name}) = 1

C14_Witness ==
  /\ pc = "plays"
  /\ connInfo0.BastionPrivateKey = ""
  /\ connInfo0.PrivateKey = "PEM"
  /\ locals.bastionPemFile = ""
  /\ locals.targetPemFile = "tmp_target_pem"
  /\ fs["tmp_target_pem"] = <<"PEM">>
  /\ "tmp_bastion_pem" \notin created

\* The class of an ephemeral file: generated inventory, known-hosts, key/cert.
Class(path) ==
  IF path \in {"tmp_known_hosts_bastion", "tmp_known_hosts_target"} THEN 2
  ELSE IF path \in {"tmp_bastion_pem", "tmp_target_pem", "tmp_cacert_pem"} THEN 3
  ELSE 1

\* C15: of the removals Run makes on exit, those of generated inventories come
\* before those of known-hosts files, which come before those of key and
\* certificate files.
C15_RemovalOrder ==
  \A a, b \in Calls("remove") :
    a < b => Class(trace[a].arg) <= Class(trace[b].arg)

C15_Witness ==
  /\ pc = "done"
  /\ \E a, b, c \in Calls("remove") :
       /\ a < b /\ b < c
       /\ trace[a].arg = InventoryTmp(1)
       /\ Class(trace[b].arg) = 2
       /\ Class(trace[c].arg) = 3

\* The plays whose generated ssh inventory is on disk as Execute rendered it,
\* whole.
WholeInventories ==
  {i \in 1..Len(plays) :
     /\ connInfo.Type = "ssh"
     /\ InventoryTmp(i) \in DOMAIN fs
     /\ fs[InventoryTmp(i)] # <<>>
     /\ \A k \in Calls("render") : trace[k].n # i}

IsName(h) == h # ""

\* The entry of the inventory for alias a with address override o.
Entry(a, o) ==
  [Alias |-> a, AnsibleHost |-> o, Username |-> connInfo.User,
   Password |-> connInfo.Password]

\* The priority rule as stated: every declared host counts as an alias.
StatedHosts(play) ==
  IF connInfo.Host # "" /\ Len(play.hosts) >= 1
  THEN <<Entry(play.hosts[1], connInfo.Host)>>
  ELSE IF connInfo.Host # ""
  THEN <<Entry(connInfo.Host, "")>>
  ELSE [k \in 1..Len(play.hosts) |-> Entry(play.hosts[k], "")]

\* The priority rule with empty host names not counting as aliases.
NamedHosts(play) ==
  LET named == SelectSeq(play.hosts, IsName)
  IN IF connInfo.Host # "" /\ Len(play.hosts) >= 1 /\ play.hosts[1] # ""
     THEN <<Entry(play.hosts[1], connInfo.Host)>>
     ELSE IF connInfo.Host # ""
     THEN <<Entry(connInfo.Host, "")>>
     ELSE [k \in 1..Len(named) |-> Entry(named[k], "")]

\* C16 as stated: the generated ssh inventory holds (a) the first declared
\* alias with the address, (b) the address alone when no alias is declared,
\* (c) one entry per declared host in order for a run without address.
C16_StatedHostSelection ==
  \A i \in WholeInventories :
    fs[InventoryTmp(i)] = RenderLocal(StatedHosts(plays[i]), plays[i].groups)

\* C16, amended: the same rule where an empty host name is no alias: with an
\* address and an empty first declared host the entry is the address alone,
\* and without address there is one entry per non-empty declared host.
C16_NamedHostSelection ==
  \A i \in WholeInventories :
    fs[InventoryTmp(i)] = RenderLocal(NamedHosts(plays[i]), plays[i].groups)

C16_Witness ==
  /\ pc = "command"
  /\ connInfo.Host = ""
  /\ plays[1].hosts = <<"", "web1">>
  /\ 1 \in WholeInventories
  /\ fs[InventoryTmp(1)] = RenderLocal(<<Entry("web1", "")>>, plays[1].groups)

\* The positions of a document where a [host:vars] header, a group header and
\* a line starting with one of the aliases stand.
VarsAt(doc) == {k \in 1..Len(doc) : doc[k] = "[host:vars]"}
GroupAt(doc) == {k \in 1..Len(doc) : doc[k] = "["}
AliasAt(doc, hosts) ==
  {k \in 1..Len(doc) :
     /\ \E h \in 1..Len(hosts) : doc[k] = hosts[h].Alias
     /\ doc[k - 1] = "\n"}

\* C17: a generated ssh inventory with n >= 1 hosts has [host:vars] exactly
\* once, all n alias lines of the [host] section before it, and no alias line
\* between it and the first group section.
C17_OneHostVarsSection ==
  \A i \in WholeInventories :
    LET doc == fs[InventoryTmp(i)]
        hosts == InventoryHosts(plays[i], connInfo)
    IN Len(hosts) >= 1
       => /\ Cardinality(VarsAt(doc)) = 1
          /\ \A v \in VarsAt(doc) :
               /\ Cardinality({a \in AliasAt(doc, hosts) : a < v}) = Len(hosts)
               /\ \A a \in AliasAt(doc, hosts) :
                    a > v => \E g \in GroupAt(doc) : g < a

\* C18: the bastion key scan is made at most once in a run, and only with a
\* bastion in use; when it fails Run is over with its error, no known-hosts
\* file and no inventory was made, no probe or play command was run, and the
\* staged key files are removed and the bastion session is closed.
C18_BastionScanNotRetried ==
  /\ Cardinality(Calls("scan")) <= 1
  /\ Calls("scan") # {} => bastionInUse(connInfo)
  /\ \A k \in Calls("scan") :
       trace[k].arg = "err"
       => /\ pc = "done"
          /\ err = "BastionScanError"
          /\ locals.knownHostsFileBastion = ""
          /\ locals.knownHostsFileTarget = ""
          /\ created \subseteq {"tmp_bastion_pem", "tmp_target_pem", "tmp_cacert_pem"}
          /\ Calls("probe") \cup Calls("apply") \cup Calls("render") = {}
          /\ created \cap DOMAIN fs = {}
          /\ \A p \in created : \E j \in Calls("remove") : j > k /\ trace[j].arg = p
          /\ ~sshClientOpen
          /\ \E j \in Calls("close") : j > k
          /\ \A j \in (k + 1)..Len(trace) : trace[j].op \in {"remove", "close"}

C18_Witness ==
  /\ pc = "done"
  /\ err = "BastionScanError"
  /\ "tmp_bastion_pem" \in created
  /\ "tmp_bastion_pem" \notin DOMAIN fs
  /\ Calls("close") # {}
  /\ Cardinality(Calls("scan")) = 1

\* C19: once Run has returned, the connection descriptor is what it was before
\* Run, the fetched target host key apart; its CA certificate material is the
\* material it had before.
C19_DescriptorUnchanged ==
  pc = "done"
  => /\ connInfo = [connInfo0 EXCEPT !.HostKey = connInfo.HostKey]
     /\ connInfo.Cacert = connInfo0.Cacert

\* C20: an error of the template's Execute is never the error of Run; unless
\* the temp file cannot be made or written, the buffer, empty or cut short, is
\* written to the play's temp inventory, the play is overridden with its path,
\* and Run goes on to the readiness probe or to the play command.
C20_RenderFailureNotFatal ==
  /\ err # "RenderError"
  /\ \A k \in Calls("render") :
       LET i == trace[k].n
           whole == InventoryContents([plays[i] EXCEPT !.overrideInventoryFile = ""],
                                      connInfo)
       IN (\A f \in Calls("fail") : ~(trace[f].n = i /\ trace[f].arg = "IOError"))
          => /\ k < Len(trace)
             /\ trace[k + 1] = Event("create", 0, InventoryTmp(i))
             /\ plays[i].overrideInventoryFile = InventoryTmp(i)
             /\ InventoryTmp(i) \in DOMAIN fs
                => fs[InventoryTmp(i)] \in {<<>>, SubSeq(whole, 1, Len(whole) \div 2)}
             /\ (pc = "done" /\ ProbeWanted(connInfo))
                => \E j \in Calls("probe") :
                     j > k /\ trace[j].n = i /\ trace[j].arg = InventoryTmp(i)
             /\ (pc = "done" /\ ~ProbeWanted(connInfo))
                => \/ \E j \in Calls("apply") :
                        j > k /\ trace[j].n = i /\ trace[j].arg = InventoryTmp(i)
                   \/ \E j \in Calls("fail") :
                        trace[j].n = i /\ trace[j].arg = "CommandError"

C20_Witness ==
  /\ pc = "done"
  /\ err = "nil"
  /\ \E k \in Calls("render") :
       /\ trace[k].arg = "RenderError"
       /\ \E j \in Calls("apply") :
            j > k /\ trace[j].n = trace[k].n
                  /\ trace[j].arg = InventoryTmp(trace[k].n)

\* The line has a key part: a token that is no white space after the blank
\* that follows the host.
HasKey(line) ==
  \E k \in 1..(Len(line) - 1) : line[k] = " " /\ ~IsSpace(line[k + 1])

\* C21: every line Run has placed in the target or in the bastion known-hosts
\* list carries a non-empty key, in every branch of the trust policy.
C21_TrustLinesHaveKey ==
  /\ \A k \in 1..Len(knownHostsTarget) : HasKey(knownHostsTarget[k])
  /\ \A k \in 1..Len(knownHostsBastion) : HasKey(knownHostsBastion[k])

\* The positions of a document where a host entry of the [host] section
\* stands: the start of a line that is neither empty nor a section header,
\* before the first group section.
HostEntriesAt(doc) ==
  {k \in 2..Len(doc) :
     /\ doc[k - 1] = "\n"
     /\ ~IsSpace(doc[k])
     /\ doc[k] \notin {"[", "[host:vars]"}
     /\ \A g \in GroupAt(doc) : k < g}

\* C22: in a resource-less ssh run, the inventory generated for an enabled
\* play without an inventory file of its own holds at least one host entry,
\* whatever hosts list the validation accepted.
C22_GeneratedInventoryHasHost ==
  \A i \in WholeInventories :
    (/\ ~ComputeResource(connInfo)
     /\ plays[i].enabled
     /\ plays[i].inventoryFile = "")
    => HostEntriesAt(fs[InventoryTmp(i)]) # {}

====
